---- MODULE Spec2Model ----
(***************************************************************************)
(* Quick_Learn.py: the single-shot ZED tutorial script.  The script is a   *)
(* straight-line program; pc is the source line about to run.  The SDK,    *)
(* OpenCV and numpy are external: what they return (error codes, the       *)
(* delivered frame, an exception on an empty buffer) is drawn by \E.       *)
(***************************************************************************)
EXTENDS Integers, Sequences, FiniteSets, TLC

VARIABLES
    pc,           \* source line about to run, or "exited" / "crashed" / "done"
    init_params,  \* sl.InitParameters object (line 21)
    openArg,      \* the configuration the session was opened with
    err,          \* result of zed.open (line 30)
    session,      \* Unopened / Opened / Grabbed / Closed
    grabErr,      \* result of zed.grab (line 50)
    frame,        \* the bundle the SDK holds after a successful grab
    mats,         \* the four sl.Mat buffers (lines 42-45)
    timestamp,    \* line 12 / line 69
    data,         \* numpy views of the buffers (lines 80-83)
    sample,       \* status returned by depth.get_value (line 101)
    window,       \* the OpenCV window on screen
    filename,     \* line 120
    files,        \* files written by np.savetxt
    exc,          \* the exception that ended the run
    calls         \* every library call issued, with the session state it saw

vars == <<pc, init_params, openArg, err, session, grabErr, frame, mats,
          timestamp, data, sample, window, filename, files, exc, calls>>

---------------------------------------------------------------------------
\* Bounds of the model
MaxTs == 24        \* capture timestamps range over 0 .. MaxTs steps
TsPerMs == 2       \* timestamp steps per millisecond

\* Program constants
camera_fps == 30
x_value == 1000
y_value == 600
NsPerMs == 1000000

None == "None"
\* The script's timestamp variable: None (line 12) or an sl.Timestamp
\* wrapping the capture time in nanoseconds (line 69)
NoTimestamp == <<>>
Timestamp(ns) == <<ns>>
\* A name not bound yet to a string / an SDK bundle not captured yet
NoFilename == <<>>
NoFrame == <<>>
NotCalled == "NotCalled"
SUCCESS == "SUCCESS"

\* sl.ERROR_CODE values open can return
OpenCodes == {SUCCESS, "CAMERA_NOT_DETECTED", "INVALID_RESOLUTION"}
\* sl.ERROR_CODE values grab can return
GrabCodes == {SUCCESS, "END_OF_SVOFILE_REACHED", "CAMERA_NOT_DETECTED"}

Empty == [w |-> 0, h |-> 0]
\* Frame sizes the SDK delivers (HD1080, HD720, VGA); the script reads the
\* size back from the SDK (lines 71-72) instead of assuming it.
Resolutions == {[w |-> 1920, h |-> 1080], [w |-> 1280, h |-> 720],
                [w |-> 672, h |-> 376]}

TsStep == NsPerMs \div TsPerMs
\* Capture timestamps, in nanoseconds (line 53)
Timestamps == {k * TsStep : k \in 0..MaxTs}

DefaultParams == [camera_resolution |-> "DEFAULT", camera_fps |-> 0,
                  depth_mode |-> "DEFAULT", coordinate_units |-> "DEFAULT"]

MatNames == {"image", "depth", "point", "depth_view"}

\* A library call, recorded with the session state it was issued in
Call(op) == Append(calls, [op |-> op, st |-> session])

---------------------------------------------------------------------------
\* Pure functions

\* sl.Timestamp.get_seconds(): nanoseconds to whole seconds
get_seconds(ns) == ns \div (1000 * NsPerMs)

\* sl.Timestamp.get_milliseconds(): nanoseconds to whole milliseconds
get_milliseconds(ns) == ns \div NsPerMs

DigitChar(d) == <<"0", "1", "2", "3", "4", "5", "6", "7", "8", "9">>[d + 1]

RECURSIVE DecimalDigits(_)
\* str() of a non-negative int inside the f-string of line 120
DecimalDigits(n) ==
    IF n < 10 THEN <<DigitChar(n)>>
    ELSE Append(DecimalDigits(n \div 10), DigitChar(n % 10))

\* f"{timestamp.get_milliseconds()}.txt"
Filename(ts) == DecimalDigits(get_milliseconds(ts)) \o <<".txt">>

\* sl.Mat.get_value(x, y): the status half of the returned pair
get_value(m, x, y) ==
    IF x >= 0 /\ x < m.w /\ y >= 0 /\ y < m.h THEN SUCCESS ELSE "FAILURE"

---------------------------------------------------------------------------
Init ==
    /\ pc = "L12"
    /\ init_params = None
    /\ openArg = None
    /\ err = NotCalled
    /\ session = "Unopened"
    /\ grabErr = NotCalled
    /\ frame = NoFrame
    /\ mats = [m \in MatNames |-> Empty]
    /\ timestamp = NoTimestamp
    /\ data = [m \in MatNames |-> Empty]
    /\ sample = NotCalled
    /\ window = None
    /\ filename = NoFilename
    /\ files = {}
    /\ exc = None
    /\ calls = <<>>

\* lines 12-21: timestamp = None; zed = sl.Camera(); init_params = sl.InitParameters()
NewInitParameters ==
    /\ pc = "L12"
    /\ timestamp' = NoTimestamp
    /\ init_params' = DefaultParams
    /\ pc' = "L22"
    /\ UNCHANGED <<openArg, err, session, grabErr, frame, mats, data, sample,
                   window, filename, files, exc, calls>>

\* line 22
SetCameraResolution ==
    /\ pc = "L22"
    /\ init_params' = [init_params EXCEPT !.camera_resolution = "HD1080"]
    /\ pc' = "L23"
    /\ UNCHANGED <<openArg, err, session, grabErr, frame, mats, timestamp, data,
                   sample, window, filename, files, exc, calls>>

\* line 23
SetCameraFps ==
    /\ pc = "L23"
    /\ init_params' = [init_params EXCEPT !.camera_fps = camera_fps]
    /\ pc' = "L24"
    /\ UNCHANGED <<openArg, err, session, grabErr, frame, mats, timestamp, data,
                   sample, window, filename, files, exc, calls>>

\* line 24
SetDepthMode ==
    /\ pc = "L24"
    /\ init_params' = [init_params EXCEPT !.depth_mode = "PERFORMANCE"]
    /\ pc' = "L25"
    /\ UNCHANGED <<openArg, err, session, grabErr, frame, mats, timestamp, data,
                   sample, window, filename, files, exc, calls>>

\* Variant of line 25: the unit is never set
SetCoordinateUnits_Skipped ==
    /\ pc = "L25"
    /\ pc' = "L30"
    /\ UNCHANGED <<init_params, openArg, err, session, grabErr, frame, mats,
                   timestamp, data, sample, window, filename, files, exc, calls>>

\* line 25
SetCoordinateUnits ==
    /\ pc = "L25"
    /\ init_params' = [init_params EXCEPT !.coordinate_units = "MILLIMETER"]
    /\ pc' = "L30"
    /\ UNCHANGED <<openArg, err, session, grabErr, frame, mats, timestamp, data,
                   sample, window, filename, files, exc, calls>>

\* line 30: err = zed.open(init_params)
Open ==
    /\ pc = "L30"
    /\ \E e \in OpenCodes :
          /\ err' = e
          /\ session' = IF e = SUCCESS THEN "Opened" ELSE session
    /\ openArg' = init_params
    /\ calls' = Call("open")
    /\ pc' = "L31"
    /\ UNCHANGED <<init_params, grabErr, frame, mats, timestamp, data, sample,
                   window, filename, files, exc>>

\* Variant of lines 31-32: the test inverted
OpenCheck_Inverted ==
    /\ pc = "L31"
    /\ pc' = IF err = SUCCESS THEN "exited" ELSE "L36"
    /\ UNCHANGED <<init_params, openArg, err, session, grabErr, frame, mats,
                   timestamp, data, sample, window, filename, files, exc, calls>>

\* Variant of lines 31-32: the result of open is not tested
OpenCheck_Missing ==
    /\ pc = "L31"
    /\ pc' = "L36"
    /\ UNCHANGED <<init_params, openArg, err, session, grabErr, frame, mats,
                   timestamp, data, sample, window, filename, files, exc, calls>>

\* lines 31-32: if err != sl.ERROR_CODE.SUCCESS: exit()
OpenCheck ==
    /\ pc = "L31"
    /\ pc' = IF err # SUCCESS THEN "exited" ELSE "L36"
    /\ UNCHANGED <<init_params, openArg, err, session, grabErr, frame, mats,
                   timestamp, data, sample, window, filename, files, exc, calls>>

\* lines 36-37: zed.get_camera_information().serial_number, print
GetCameraInformation ==
    /\ pc = "L36"
    /\ calls' = Call("get_camera_information")
    /\ pc' = "L42"
    /\ UNCHANGED <<init_params, openArg, err, session, grabErr, frame, mats,
                   timestamp, data, sample, window, filename, files, exc>>

\* lines 42-48: the four sl.Mat() buffers and the runtime parameters
AllocMats ==
    /\ pc = "L42"
    /\ mats' = [m \in MatNames |-> Empty]
    /\ pc' = "L50"
    /\ UNCHANGED <<init_params, openArg, err, session, grabErr, frame,
                   timestamp, data, sample, window, filename, files, exc, calls>>

\* Variant of line 50: the result of grab is not tested
Grab_Unchecked ==
    /\ pc = "L50"
    /\ \E r \in GrabCodes :
          /\ grabErr' = r
          /\ IF r = SUCCESS
             THEN /\ session' = "Grabbed"
                  /\ \E res \in Resolutions, ts \in Timestamps :
                        frame' = <<[res |-> res, ts |-> ts]>>
             ELSE UNCHANGED <<session, frame>>
    /\ pc' = "L56"
    /\ calls' = Call("grab")
    /\ UNCHANGED <<init_params, openArg, err, mats, timestamp, data, sample,
                   window, filename, files, exc>>

\* line 50: if zed.grab(runtime_parameters) == sl.ERROR_CODE.SUCCESS:
Grab ==
    /\ pc = "L50"
    /\ \E r \in GrabCodes :
          /\ grabErr' = r
          /\ IF r = SUCCESS
             THEN /\ session' = "Grabbed"
                  /\ \E res \in Resolutions, ts \in Timestamps :
                        frame' = <<[res |-> res, ts |-> ts]>>
                  /\ pc' = "L56"
             ELSE /\ UNCHANGED <<session, frame>>
                  /\ pc' = "L80"
    /\ calls' = Call("grab")
    /\ UNCHANGED <<init_params, openArg, err, mats, timestamp, data, sample,
                   window, filename, files, exc>>

\* What a retrieval copies into the caller's buffer: the bundle's size when a
\* bundle was captured, nothing otherwise
Delivered == IF frame = NoFrame THEN Empty ELSE frame[1].res

\* lines 56-59: zed.retrieve_image(image, sl.VIEW.LEFT)
RetrieveImageLeft ==
    /\ pc = "L56"
    /\ mats' = [mats EXCEPT !["image"] = Delivered]
    /\ calls' = Call("retrieve_image:LEFT")
    /\ pc' = "L60"
    /\ UNCHANGED <<init_params, openArg, err, session, grabErr, frame,
                   timestamp, data, sample, window, filename, files, exc>>

\* line 60: zed.retrieve_measure(depth, sl.MEASURE.DEPTH)
RetrieveMeasureDepth ==
    /\ pc = "L60"
    /\ mats' = [mats EXCEPT !["depth"] = Delivered]
    /\ calls' = Call("retrieve_measure:DEPTH")
    /\ pc' = "L62"
    /\ UNCHANGED <<init_params, openArg, err, session, grabErr, frame,
                   timestamp, data, sample, window, filename, files, exc>>

\* line 62: zed.retrieve_image(depth_view, sl.VIEW.DEPTH)
RetrieveImageDepth ==
    /\ pc = "L62"
    /\ mats' = [mats EXCEPT !["depth_view"] = Delivered]
    /\ calls' = Call("retrieve_image:DEPTH")
    /\ pc' = "L67"
    /\ UNCHANGED <<init_params, openArg, err, session, grabErr, frame,
                   timestamp, data, sample, window, filename, files, exc>>

\* line 67: zed.retrieve_measure(point, sl.MEASURE.XYZRGBA)
RetrieveMeasurePoint ==
    /\ pc = "L67"
    /\ mats' = [mats EXCEPT !["point"] = Delivered]
    /\ calls' = Call("retrieve_measure:XYZRGBA")
    /\ pc' = "L69"
    /\ UNCHANGED <<init_params, openArg, err, session, grabErr, frame,
                   timestamp, data, sample, window, filename, files, exc>>

\* Variant of line 69: the current time is read instead of the image's
GetTimestamp_Current ==
    /\ pc = "L69"
    /\ \E now \in Timestamps : timestamp' = Timestamp(now)
    /\ calls' = Call("get_timestamp")
    /\ pc' = "L80"
    /\ UNCHANGED <<init_params, openArg, err, session, grabErr, frame, mats,
                   data, sample, window, filename, files, exc>>

\* lines 69-73: timestamp = zed.get_timestamp(sl.TIME_REFERENCE.IMAGE), print
GetTimestamp ==
    /\ pc = "L69"
    /\ timestamp' = IF frame = NoFrame THEN Timestamp(0)
                    ELSE Timestamp(frame[1].ts)
    /\ calls' = Call("get_timestamp")
    /\ pc' = "L80"
    /\ UNCHANGED <<init_params, openArg, err, session, grabErr, frame, mats,
                   data, sample, window, filename, files, exc>>

\* The run ends with an uncaught exception
Raise(e) ==
    /\ exc' = e
    /\ pc' = "crashed"

\* Shapes get_data can hand back for a buffer no retrieval has filled: the
\* SDK leaves the content of such a buffer undefined or empty
UnfilledShapes == {Empty} \cup Resolutions

GetDataCalls == <<"get_data:image", "get_data:depth", "get_data:depth_view",
                  "get_data:point">>

\* lines 80-83: image_data, depth_data, depth_imag, point_data = <Mat>.get_data()
GetData ==
    /\ pc = "L80"
    /\ IF mats["image"] # Empty
       THEN /\ data' = mats
            /\ calls' = calls \o [i \in 1..4 |->
                                   [op |-> GetDataCalls[i], st |-> session]]
            /\ pc' = "L85"
            /\ UNCHANGED exc
       ELSE \/ /\ Raise("RuntimeError")
               /\ calls' = Call(GetDataCalls[1])
               /\ UNCHANGED data
            \/ /\ \E s \in UnfilledShapes : data' = [m \in MatNames |-> s]
               /\ calls' = calls \o [i \in 1..4 |->
                                      [op |-> GetDataCalls[i], st |-> session]]
               /\ pc' = "L85"
               /\ UNCHANGED exc
    /\ UNCHANGED <<init_params, openArg, err, session, grabErr, frame, mats,
                   timestamp, sample, window, filename, files>>

\* lines 85-92: the depth buffer's metadata, depth_data.shape and
\* type(depth_data[0][0]), which raises IndexError on an empty array
PrintInfo ==
    /\ pc = "L85"
    /\ calls' = Call("get_infos")
    /\ IF data["depth"] = Empty
       THEN Raise("IndexError")
       ELSE pc' = "L97" /\ UNCHANGED exc
    /\ UNCHANGED <<init_params, openArg, err, session, grabErr, frame, mats,
                   timestamp, data, sample, window, filename, files>>

\* lines 97-103: print(... depth.get_value(x=x_value, y=y_value)); the
\* (status, value) pair is printed and not inspected
GetValue ==
    /\ pc = "L97"
    /\ sample' = get_value(mats["depth"], x_value, y_value)
    /\ calls' = Call("get_value")
    /\ pc' = "L107"
    /\ UNCHANGED <<init_params, openArg, err, session, grabErr, frame, mats,
                   timestamp, data, window, filename, files, exc>>

\* lines 107-108: cv2.circle(image_data, ...); cv2.imshow("LEFT View", image_data);
\* imshow raises cv2.error on an empty image
ShowLeft ==
    /\ pc = "L107"
    /\ calls' = Call("imshow:LEFT View")
    /\ IF data["image"] = Empty
       THEN Raise("cv2.error") /\ UNCHANGED window
       ELSE window' = "LEFT View" /\ pc' = "L109" /\ UNCHANGED exc
    /\ UNCHANGED <<init_params, openArg, err, session, grabErr, frame, mats,
                   timestamp, data, sample, filename, files>>

\* Variant of lines 109-115: the depth window is never shown
DismissLeft_SkipDepthView ==
    /\ pc = "L109"
    /\ window = "LEFT View"
    /\ window' = None
    /\ calls' = calls \o <<[op |-> "waitKey", st |-> session],
                           [op |-> "destroyAllWindows", st |-> session]>>
    /\ pc' = "L120"
    /\ UNCHANGED <<init_params, openArg, err, session, grabErr, frame, mats,
                   timestamp, data, sample, filename, files, exc>>

\* lines 109-110: cv2.waitKey(0) blocks until a key press; cv2.destroyAllWindows()
DismissLeft ==
    /\ pc = "L109"
    /\ window = "LEFT View"
    /\ window' = None
    /\ calls' = calls \o <<[op |-> "waitKey", st |-> session],
                           [op |-> "destroyAllWindows", st |-> session]>>
    /\ pc' = "L113"
    /\ UNCHANGED <<init_params, openArg, err, session, grabErr, frame, mats,
                   timestamp, data, sample, filename, files, exc>>

\* line 113: cv2.imshow("Depth View", depth_imag)
ShowDepth ==
    /\ pc = "L113"
    /\ calls' = Call("imshow:Depth View")
    /\ IF data["depth_view"] = Empty
       THEN Raise("cv2.error") /\ UNCHANGED window
       ELSE window' = "Depth View" /\ pc' = "L114" /\ UNCHANGED exc
    /\ UNCHANGED <<init_params, openArg, err, session, grabErr, frame, mats,
                   timestamp, data, sample, filename, files>>

\* lines 114-115: cv2.waitKey(0); cv2.destroyAllWindows()
DismissDepth ==
    /\ pc = "L114"
    /\ window = "Depth View"
    /\ window' = None
    /\ calls' = calls \o <<[op |-> "waitKey", st |-> session],
                           [op |-> "destroyAllWindows", st |-> session]>>
    /\ pc' = "L120"
    /\ UNCHANGED <<init_params, openArg, err, session, grabErr, frame, mats,
                   timestamp, data, sample, filename, files, exc>>

\* line 120: filename = f"{timestamp.get_milliseconds()}.txt"; None has no
\* get_milliseconds, so the attribute lookup raises AttributeError
MakeFilename ==
    /\ pc = "L120"
    /\ IF timestamp = NoTimestamp
       THEN Raise("AttributeError") /\ UNCHANGED filename
       ELSE filename' = Filename(timestamp[1]) /\ pc' = "L121" /\ UNCHANGED exc
    /\ UNCHANGED <<init_params, openArg, err, session, grabErr, frame, mats,
                   timestamp, data, sample, window, files, calls>>

\* line 121: np.savetxt(filename, depth_data, fmt="%.8f"); the write can fail
\* with OSError
SaveTxt ==
    /\ pc = "L121"
    /\ calls' = Call("savetxt")
    /\ \/ /\ files' = files \cup {[name |-> filename,
                                   rows |-> data["depth"].h,
                                   cols |-> data["depth"].w]}
          /\ pc' = "L124"
          /\ UNCHANGED exc
       \/ /\ Raise("OSError")
          /\ UNCHANGED files
    /\ UNCHANGED <<init_params, openArg, err, session, grabErr, frame, mats,
                   timestamp, data, sample, window, filename>>

\* line 124: zed.close()
Close ==
    /\ pc = "L124"
    /\ session' = "Closed"
    /\ calls' = Call("close")
    /\ pc' = "done"
    /\ UNCHANGED <<init_params, openArg, err, grabErr, frame, mats, timestamp,
                   data, sample, window, filename, files, exc>>

Next ==
    \/ NewInitParameters
    \/ SetCameraResolution
    \/ SetCameraFps
    \/ SetDepthMode
    \/ SetCoordinateUnits
    \/ Open
    \/ OpenCheck
    \/ GetCameraInformation
    \/ AllocMats
    \/ Grab
    \/ RetrieveImageLeft
    \/ RetrieveMeasureDepth
    \/ RetrieveImageDepth
    \/ RetrieveMeasurePoint
    \/ GetTimestamp
    \/ GetData
    \/ PrintInfo
    \/ GetValue
    \/ ShowLeft
    \/ DismissLeft
    \/ ShowDepth
    \/ DismissDepth
    \/ MakeFilename
    \/ SaveTxt
    \/ Close

Spec == Init /\ [][Next]_vars

---------------------------------------------------------------------------
\* Vocabulary of the properties

RetrievalOps == {"retrieve_image:LEFT", "retrieve_measure:DEPTH",
                 "retrieve_image:DEPTH", "retrieve_measure:XYZRGBA"}
SessionOps == {"open", "get_camera_information", "grab", "get_timestamp",
               "close"} \cup RetrievalOps
BufferOps == {GetDataCalls[i] : i \in 1..4} \cup {"get_infos", "get_value"}
DisplayOps == {"imshow:LEFT View", "imshow:Depth View", "waitKey",
               "destroyAllWindows"}
ExportOps == {"savetxt"}

Issued(ops) == {i \in DOMAIN calls : calls[i].op \in ops}
Terminated == pc \in {"done", "exited", "crashed"}
GrabFailed == grabErr \notin {NotCalled, SUCCESS}
OpenFailed == err \notin {NotCalled, SUCCESS}
Abs(n) == IF n < 0 THEN 0 - n ELSE n

ExpectedParams == [camera_resolution |-> "HD1080", camera_fps |-> camera_fps,
                   depth_mode |-> "PERFORMANCE",
                   coordinate_units |-> "MILLIMETER"]

\* The steps of a run, in the order they were issued
StepOps == {"open", "grab", "get_value", "close"} \cup RetrievalOps
              \cup DisplayOps \cup ExportOps
IsStep(c) == c.op \in StepOps
Steps == LET s == SelectSeq(calls, IsStep) IN [i \in 1..Len(s) |-> s[i].op]
FullRun == <<"open", "grab",
             "retrieve_image:LEFT", "retrieve_measure:DEPTH",
             "retrieve_image:DEPTH", "retrieve_measure:XYZRGBA",
             "get_value",
             "imshow:LEFT View", "waitKey", "destroyAllWindows",
             "imshow:Depth View", "waitKey", "destroyAllWindows",
             "savetxt", "close">>

---------------------------------------------------------------------------
\* C1: every retrieval call is issued after a grab call of the run returned
\* SUCCESS; when grab returned another code no retrieval call is issued.
C1_RetrievalOnlyAfterSuccessfulGrab ==
    /\ \A i \in Issued(RetrievalOps) :
          /\ grabErr = SUCCESS
          /\ \E j \in 1..(i - 1) : calls[j].op = "grab"
    /\ GrabFailed => Issued(RetrievalOps) = {} /\ mats = [m \in MatNames |-> Empty]

C1_Witness ==
    /\ grabErr = SUCCESS
    /\ Cardinality(Issued(RetrievalOps)) = 4
    /\ mats["point"] # Empty

\* C2: when open returns a code other than SUCCESS the script stops: no grab,
\* retrieval, sampling, display or export is performed in that run.
C2_OpenFailureStops ==
    OpenFailed =>
        /\ pc \in {"L31", "exited"}
        /\ Issued(SessionOps \cup BufferOps \cup DisplayOps \cup ExportOps)
              = Issued({"open"})
        /\ grabErr = NotCalled /\ sample = NotCalled
        /\ window = None /\ files = {}

C2_Witness == OpenFailed /\ pc = "exited"

\* C3: when grab fails, the buffer conversion, the point sample, both windows
\* and the export are all skipped, and grab is not called again.
C3_GrabFailureSkipsDependentSteps ==
    GrabFailed =>
        /\ Issued(BufferOps \cup DisplayOps \cup ExportOps) = {}
        /\ Cardinality(Issued({"grab"})) = 1

\* C4: a run in which open succeeded has called close by the time the script
\* terminates.
C4_OpenedSessionIsClosedAtExit ==
    (Terminated /\ err = SUCCESS) => Issued({"close"}) # {} /\ session = "Closed"

\* C5: if the sampler reports a non-success status, no export is performed.
C5_FailedSampleMeansNoExport ==
    sample \notin {NotCalled, SUCCESS} => Issued(ExportOps) = {} /\ files = {}

\* C6: Closed is terminal: nothing is called on the session or its buffers
\* after close, and every session call other than open sees the session
\* Opened or Grabbed.
C6_ClosedIsTerminal ==
    /\ \A i \in Issued(SessionOps \ {"open"}) :
          calls[i].st \in {"Opened", "Grabbed"}
    /\ \A i \in Issued({"close"}) : i = Len(calls)
    /\ session = "Closed" => pc = "done"

C6_Witness == session = "Closed" /\ Issued({"close"}) # {}

\* C7 as stated: the file name is the one computed from the capture
\* timestamp, and every other capture timestamp gives another file name.
C7_DistinctTimestampsDistinctNames ==
    \A f \in files :
        /\ f.name = Filename(frame[1].ts)
        /\ \A t \in Timestamps :
              t # frame[1].ts => Filename(t) # f.name

\* C7 as amended: the file name is the one computed from the capture
\* timestamp, and every capture timestamp at least one millisecond away
\* gives another file name.
C7_NamesDistinctFromOneMillisecond ==
    \A f \in files :
        /\ f.name = Filename(frame[1].ts)
        /\ \A t \in Timestamps :
              Abs(t - frame[1].ts) >= NsPerMs => Filename(t) # f.name

C7_Witness ==
    \E f \in files :
        /\ Len(f.name) >= 3
        /\ \E t \in Timestamps :
              /\ Abs(t - frame[1].ts) >= NsPerMs
              /\ Abs(t - frame[1].ts) < 2 * NsPerMs

\* C8: the four options are set before open is called, and nothing after
\* open changes an option.
C8_ConfigurationFixedAtOpen ==
    err # NotCalled =>
        /\ openArg = ExpectedParams
        /\ init_params = openArg

C8_Witness == pc = "done" /\ init_params = ExpectedParams

\* C9: a run that reaches close has performed open, grab, the four
\* retrievals, the sample, the left window and its dismissal, the depth
\* window and its dismissal, the export and close, once each, in that order.
C9_StepsOnceAndInOrder ==
    Issued({"close"}) # {} => Steps = FullRun

C9_Witness == pc = "done" /\ Len(calls) > Len(FullRun)

\* C10: whenever the export is performed, timestamp holds the capture
\* timestamp read after the successful grab of the run, never None; no file
\* is written in a run whose grab failed.
C10_ExportHasCaptureTimestamp ==
    /\ (pc \in {"L121"} \/ Issued(ExportOps) # {} \/ files # {}) =>
          /\ timestamp # NoTimestamp
          /\ grabErr = SUCCESS
          /\ frame # NoFrame
          /\ timestamp = Timestamp(frame[1].ts)
          /\ \E g \in Issued({"grab"}), t \in Issued({"get_timestamp"}) : g < t
    /\ GrabFailed => files = {}

C10_Witness == files # {} /\ timestamp # NoTimestamp /\ pc = "done"

====
